---- MODULE Spec2Model ----
(***************************************************************************)
(* A model of src/space-invaders.ts: the SpaceInvaders session (player,    *)
(* enemy formation, bullets, direction, running flag), the id counter, the *)
(* keypress handler and the setInterval game loop.  Node runs one handler  *)
(* at a time to completion, so each handler is one atomic action.          *)
(*                                                                         *)
(* The arrays `enemies` and `bullets` are modelled as sets of records      *)
(* [id, x, y]: elements are pushed in id order and only ever removed by    *)
(* Array.filter, so an array is the set of its elements sorted by id.      *)
(***************************************************************************)
EXTENDS Integers, Sequences, FiniteSets

\* ---- bounds of the model (the environment's budget, not the program's) ----
MaxTicks == 19
MaxShots == 1
MaxMoves == 1
MaxVolley == 2

\* ---- program constants ----
width == 40
height == 20
NUM_ENEMIES_PER_ROW == 8
NUM_ROWS == 3
ENEMY_X_SPACING == 3
ENEMY_Y_SPACING == 2
ENEMY_X_START == 3
ENEMY_Y_START == 1

Left == "left"
Right == "right"

VARIABLES
  player,          \* this.player: [x, y]
  isGameRunning,   \* this.isGameRunning
  enemies,         \* this.enemies: set of [id, x, y]
  enemyDirection,  \* this.enemyDirection
  bullets,         \* this.bullets: set of [id, x, y]
  count,           \* the module-level id counter
  exited,          \* process.exit(0) was called, or an uncaught error ended the process
  timer,           \* the setInterval handle is still armed
  screen,          \* what the terminal shows after the last console.clear()/console.log()
  lastEvent,       \* the event whose handler ran last: a key, the timer tick, or none yet
  drawn,           \* number of render() calls made by the handler that ran last
  ticks,           \* timer ticks delivered so far (environment budget)
  moves            \* left/right key events delivered so far (environment budget)

vars == <<player, isGameRunning, enemies, enemyDirection, bullets, count,
          exited, timer, screen, lastEvent, drawn, ticks, moves>>

\* ---- events ----
Key(name, ctrl) == [name |-> name, ctrl |-> ctrl]
NoEvent == Key("<none>", FALSE)
TickEvent == Key("<tick>", FALSE)
\* the keys the environment presses; 'c' without Ctrl is a key no branch maps
Keys == {Key("left", FALSE), Key("right", FALSE), Key("space", FALSE),
         Key("q", FALSE), Key("c", TRUE), Key("c", FALSE)}

\* ---- getCoordinate: the string `(${x},${y})` as a sequence of characters ----
Digit(d) == CASE d = 0 -> "0" [] d = 1 -> "1" [] d = 2 -> "2" [] d = 3 -> "3"
              [] d = 4 -> "4" [] d = 5 -> "5" [] d = 6 -> "6" [] d = 7 -> "7"
              [] d = 8 -> "8" [] d = 9 -> "9"

RECURSIVE NumberToString(_)
NumberToString(n) ==
  IF n < 0 THEN <<"-">> \o NumberToString(-n)
  ELSE IF n < 10 THEN <<Digit(n)>>
  ELSE NumberToString(n \div 10) \o <<Digit(n % 10)>>

getCoordinate(p) ==
  <<"(">> \o NumberToString(p.x) \o <<",">> \o NumberToString(p.y) \o <<")">>

flipDirection(direction) == IF direction = Left THEN Right ELSE Left

\* bug: createId returns the counter's value before the increment
createIdPostIncrement(c) == [count |-> c + 1, id |-> c]

\* ---- createId: count += 1; return count ----
createId(c) == [count |-> c + 1, id |-> c + 1]

\* bug: the two spacings are swapped
createEnemiesSpacingSwapped ==
  { [id |-> createId(row * NUM_ENEMIES_PER_ROW + col).id,
     x  |-> ENEMY_X_START + col * ENEMY_Y_SPACING,
     y  |-> ENEMY_Y_START + row * ENEMY_X_SPACING] :
       row \in 0..(NUM_ROWS - 1), col \in 0..(NUM_ENEMIES_PER_ROW - 1) }

\* ---- createEnemies: the push of (row, col) is createId call number
\* row * NUM_ENEMIES_PER_ROW + col + 1, so it finds that many calls less one
\* in the counter ----
createEnemies ==
  { [id |-> createId(row * NUM_ENEMIES_PER_ROW + col).id,
     x  |-> ENEMY_X_START + col * ENEMY_X_SPACING,
     y  |-> ENEMY_Y_START + row * ENEMY_Y_SPACING] :
       row \in 0..(NUM_ROWS - 1), col \in 0..(NUM_ENEMIES_PER_ROW - 1) }

\* ---- moveEnemies ----
directionVector(direction) == IF direction = Right THEN 1 ELSE -1

leftmost(es) == CHOOSE m \in {e.x : e \in es} : \A e \in es : m <= e.x
rightmost(es) == CHOOSE m \in {e.x : e \in es} : \A e \in es : m >= e.x

\* bug: the edge test looks at where the formation is, not where it steps to
willHitEdgeNoStep(es, direction) ==
  /\ es # {}
  /\ \/ rightmost(es) >= width - 2
     \/ leftmost(es) <= 1

\* bug: the extremes of an empty formation are taken to be 0
willHitEdgeZeroOnEmpty(es, direction) ==
  LET l == IF es = {} THEN 0 ELSE leftmost(es)
      r == IF es = {} THEN 0 ELSE rightmost(es)
  IN  \/ r + directionVector(direction) >= width - 1
      \/ l + directionVector(direction) <= 0

\* bug: the edge test compares strictly
willHitEdgeStrict(es, direction) ==
  /\ es # {}
  /\ \/ rightmost(es) + directionVector(direction) > width - 1
     \/ leftmost(es) + directionVector(direction) < 0

\* the edge test of moveEnemies; on an empty array Math.min() is Infinity and
\* Math.max() is -Infinity, so both comparisons are false
willHitEdge(es, direction) ==
  /\ es # {}
  /\ \/ rightmost(es) + directionVector(direction) >= width - 1
     \/ leftmost(es) + directionVector(direction) <= 0

\* bug: the displacement is computed after the flip
moveEnemiesFlipFirst(es, direction) ==
  LET flipped == IF willHitEdge(es, direction) THEN flipDirection(direction)
                 ELSE direction
  IN  [direction |-> flipped,
       enemies   |-> { [e EXCEPT !.x = @ + 1 * directionVector(flipped)] : e \in es }]

moveEnemies(es, direction) ==
  [direction |-> IF willHitEdge(es, direction) THEN flipDirection(direction)
                 ELSE direction,
   enemies   |-> { [e EXCEPT !.x = @ + 1 * directionVector(direction)] : e \in es }]

\* ---- moveBullets ----
advanceBullets(bs) == { [b EXCEPT !.y = @ - 1] : b \in bs }

bulletCoordinates(bs) == { getCoordinate(b) : b \in bs }

\* bug: the collision is tested against the cells the bullets moved out of
surviveCollisionBeforeMove(es, bs) ==
  { e \in es : ~ \E b \in bs : b.x = e.x /\ b.y + 1 = e.y }

surviveCollision(es, bs) ==
  { e \in es : getCoordinate(e) \notin bulletCoordinates(bs) }

\* bug: bullets are never pruned
pruneBulletsNever(bs) == bs

\* bug: a bullet on the top row is pruned one tick early
pruneBulletsTopRow(bs) == { b \in bs : b.y > 0 }

\* bug: a bullet just above the board is kept
pruneBulletsLate(bs) == { b \in bs : b.y >= -1 }

pruneBullets(bs) == { b \in bs : b.y >= 0 }

moveBullets(es, bs) ==
  LET moved == advanceBullets(bs)
  IN  [enemies |-> surviveCollision(es, moved),
       bullets |-> pruneBullets(moved)]

\* ---- render ----
Pos(p) == <<p.x, p.y>>

BlankScreen == [kind |-> "blank", text |-> "", player |-> <<0, 0>>,
                enemies |-> {}, bullets |-> {}]

\* baseBoard[y] is undefined for a row outside the board, and writing
\* baseBoard[y][x] then throws a TypeError nobody catches
rowOnBoard(p) == p.y >= 0 /\ p.y < height

renderThrows(p, es, bs) ==
  \/ \E e \in es : ~rowOnBoard(e)
  \/ \E b \in bs : ~rowOnBoard(b)
  \/ ~rowOnBoard(p)

render(p, es, bs) ==
  IF renderThrows(p, es, bs)
  THEN [BlankScreen EXCEPT !.kind = "error", !.text = "TypeError"]
  ELSE [BlankScreen EXCEPT !.kind = "board",
                           !.text = "Controls: <-/-> to move, Q to quit",
                           !.player = Pos(p),
                           !.enemies = { Pos(e) : e \in es },
                           !.bullets = { Pos(b) : b \in bs }]

\* the glyph render puts in cell (x, y) of the base board: enemies are drawn
\* first, bullets over them, the player last
baseBoardAt(s, x, y) ==
  IF s.player = <<x, y>> THEN "player"
  ELSE IF <<x, y>> \in s.bullets THEN "bullet"
  ELSE IF <<x, y>> \in s.enemies THEN "enemy"
  ELSE "background"

\* ---- createBaseBoard with the glyphs render writes into it: board[y][x] ----
createBaseBoard(s) ==
  [i \in 0..(height - 1) |-> [j \in 0..(width - 1) |-> baseBoardAt(s, j, i)]]

\* bug: the full board is one column short
createFullBoardNarrow(board) ==
  [i \in 0..(height + 1) |->
     [j \in 0..width |->
        IF i \in {0, height + 1} \/ j \in {0, width} THEN "border"
        ELSE board[i - 1][j - 1]]]

\* ---- createFullBoard: the border is drawn edges first, then the corners,
\* then the base board is copied into the interior ----
createFullBoard(board) ==
  [i \in 0..(height + 1) |->
     [j \in 0..(width + 1) |->
        IF i = 0 /\ j = 0 THEN "corner-top-left"
        ELSE IF i = 0 /\ j = width + 1 THEN "corner-top-right"
        ELSE IF i = height + 1 /\ j = 0 THEN "corner-bottom-left"
        ELSE IF i = height + 1 /\ j = width + 1 THEN "corner-bottom-right"
        ELSE IF i = 0 \/ i = height + 1 THEN "horizontal"
        ELSE IF j = 0 \/ j = width + 1 THEN "vertical"
        ELSE board[i - 1][j - 1]]]

\* the grid render prints for a screen
fullBoard(s) == createFullBoard(createBaseBoard(s))

\* ---- constructor, and the "Starting game..." line before start() ----
Init ==
  /\ player = [x |-> width \div 2, y |-> height - 1]
  /\ isGameRunning = TRUE
  /\ enemyDirection = Right
  /\ enemies = createEnemies
  /\ bullets = {}
  /\ count = createId(NUM_ROWS * NUM_ENEMIES_PER_ROW - 1).count
  /\ exited = FALSE
  /\ timer = TRUE
  /\ screen = [BlankScreen EXCEPT !.kind = "message", !.text = "Starting game..."]
  /\ lastEvent = NoEvent
  /\ drawn = 0
  /\ ticks = 0
  /\ moves = 0

\* bug: no second bullet is fired into a cell that already holds one
createBulletDebounced(p, bs, c) ==
  IF \E b \in bs : b.x = p.x /\ b.y = p.y - 1
  THEN [count |-> c, bullets |-> bs]
  ELSE [count |-> createId(c).count,
        bullets |-> bs \cup { [id |-> createId(c).id, x |-> p.x, y |-> p.y - 1] }]

\* ---- createBullet ----
createBullet(p, bs, c) ==
  [count |-> createId(c).count,
   bullets |-> bs \cup { [id |-> createId(c).id, x |-> p.x, y |-> p.y - 1] }]

\* bug: gameOver returns without process.exit(0)
gameOverNoExit(message) ==
  [isGameRunning |-> FALSE,
   screen |-> [BlankScreen EXCEPT !.kind = "message", !.text = message],
   exited |-> FALSE]

\* ---- gameOver: flag, clear, message, process.exit(0) ----
gameOver(message) ==
  [isGameRunning |-> FALSE,
   screen |-> [BlankScreen EXCEPT !.kind = "message", !.text = message],
   exited |-> TRUE]

\* ---- the keypress handler of setupInputHandling ----
\* bug: the left guard lets the player step off the board
canMoveLeftOffByOne(p) == p.x >= 0

canMoveLeft(p) == p.x > 0
canMoveRight(p) == p.x < width - 1
isQuit(key) == key.name = "q" \/ (key.ctrl /\ key.name = "c")

\* bug: the last branch is an else, so any other key fires too
keyBranchFireOnAnyKey(key, p) ==
  IF key.name = "left" /\ canMoveLeft(p) THEN "left"
  ELSE IF key.name = "right" /\ canMoveRight(p) THEN "right"
  ELSE IF isQuit(key) THEN "quit"
  ELSE "fire"

\* the branch of the if / else-if chain that a key takes
keyBranch(key, p) ==
  IF key.name = "left" /\ canMoveLeft(p) THEN "left"
  ELSE IF key.name = "right" /\ canMoveRight(p) THEN "right"
  ELSE IF isQuit(key) THEN "quit"
  ELSE IF key.name = "space" THEN "fire"
  ELSE "none"

KeyPress(key) ==
  LET branch == keyBranch(key, player)
      over   == gameOver("Thanks for playing!")
      fired  == createBullet(player, bullets, count)
  IN  /\ ~exited
      /\ lastEvent' = key
      /\ UNCHANGED <<enemies, enemyDirection, timer>>
      /\ player' = IF branch = "left" THEN [player EXCEPT !.x = @ - 1]
                   ELSE IF branch = "right" THEN [player EXCEPT !.x = @ + 1]
                   ELSE player
      /\ isGameRunning' = IF branch = "quit" THEN over.isGameRunning
                          ELSE isGameRunning
      /\ bullets' = IF branch = "fire" THEN fired.bullets ELSE bullets
      /\ count' = IF branch = "fire" THEN fired.count ELSE count
      /\ IF branch = "quit" /\ over.exited
         THEN \* process.exit(0) inside gameOver: line 121 is never reached
              /\ screen' = over.screen
              /\ exited' = TRUE
              /\ drawn' = 0
         ELSE \* line 121: render after the branch
              /\ screen' = render(player', enemies, bullets')
              /\ exited' = renderThrows(player', enemies, bullets')
              /\ drawn' = 1

\* bug: the two engine calls are swapped
gameStepBulletsFirst(es, direction, bs) ==
  LET movedB == moveBullets(es, bs)
      movedE == moveEnemies(movedB.enemies, direction)
  IN  [direction |-> movedE.direction,
       enemies   |-> movedE.enemies,
       bullets   |-> movedB.bullets]

\* ---- the body of one game-loop iteration: moveEnemies, then moveBullets ----
gameStep(es, direction, bs) ==
  LET movedE == moveEnemies(es, direction)
      movedB == moveBullets(movedE.enemies, bs)
  IN  [direction |-> movedE.direction,
       enemies   |-> movedB.enemies,
       bullets   |-> movedB.bullets]

\* ---- the setInterval callback of start() ----
Tick ==
  /\ ~exited
  /\ timer
  /\ lastEvent' = TickEvent
  /\ UNCHANGED <<player, isGameRunning, count>>
  /\ IF ~isGameRunning
     THEN /\ timer' = FALSE
          /\ drawn' = 0
          /\ UNCHANGED <<enemies, enemyDirection, bullets, screen, exited>>
     ELSE LET after == gameStep(enemies, enemyDirection, bullets)
          IN  /\ enemyDirection' = after.direction
              /\ enemies' = after.enemies
              /\ bullets' = after.bullets
              /\ screen' = render(player, after.enemies, after.bullets)
              /\ exited' = renderThrows(player, after.enemies, after.bullets)
              /\ drawn' = 1
              /\ timer' = TRUE

\* ---- the environment: which events it delivers, within its budget ----
isMove(key) == key.name \in {"left", "right"}

withinBudget(key) ==
  /\ isMove(key) => moves < MaxMoves
  /\ key.name = "space" => count < NUM_ROWS * NUM_ENEMIES_PER_ROW + MaxShots

TimerFires ==
  /\ ticks < MaxTicks
  /\ Tick
  /\ ticks' = ticks + 1
  /\ UNCHANGED moves

KeyEvent ==
  \E key \in Keys :
    /\ withinBudget(key)
    /\ KeyPress(key)
    /\ moves' = IF isMove(key) THEN moves + 1 ELSE moves
    /\ UNCHANGED ticks

Next == TimerFires \/ KeyEvent

Spec == Init /\ [][Next]_vars

\* a session in which the player never fires: the formation is never thinned,
\* so the state space is finite without a budget on ticks or moves
TimerFiresFree == Tick /\ UNCHANGED <<ticks, moves>>

KeyEventNoFire ==
  \E key \in Keys \ {Key("space", FALSE)} :
    KeyPress(key) /\ UNCHANGED <<ticks, moves>>

NextWalk == TimerFiresFree \/ KeyEventNoFire

SpecWalk == Init /\ [][NextWalk]_vars

\* a session in which the player stands still and fires a volley
KeyEventVolley ==
  \E key \in { k \in Keys : ~isMove(k) } :
    /\ key.name = "space" => count < NUM_ROWS * NUM_ENEMIES_PER_ROW + MaxVolley
    /\ KeyPress(key)
    /\ UNCHANGED <<ticks, moves>>

NextVolley == TimerFires \/ KeyEventVolley

SpecVolley == Init /\ [][NextVolley]_vars

\* a session in which the player stands still and the timer never stops firing
\* while the process lives: setInterval keeps calling the game loop
KeyEventLive ==
  \E key \in { k \in Keys : ~isMove(k) } :
    /\ key.name = "space" => count < NUM_ROWS * NUM_ENEMIES_PER_ROW + MaxShots
    /\ KeyPress(key)
    /\ UNCHANGED <<ticks, moves>>

NextLive == TimerFiresFree \/ KeyEventLive

SpecLive == Init /\ [][NextLive]_vars /\ WF_vars(TimerFiresFree)

\* ---- the end of a session: every enemy but one has been shot ----
\* The survivor is the first enemy of the bottom row; alone it sweeps between
\* x = 0 and x = width-1, heading Right on 0..width-2 and Left on 1..width-1.
\* One bullet was spent on each of the others, none is in flight, and the
\* last tick rendered this state.
EndgameCount == createId(2 * NUM_ROWS * NUM_ENEMIES_PER_ROW - 2).count

EndgameInit ==
  /\ player = [x |-> width \div 2, y |-> height - 1]
  /\ isGameRunning = TRUE
  /\ enemyDirection \in {Left, Right}
  /\ \E x \in 0..(width - 1) :
       /\ enemyDirection = Right => x <= width - 2
       /\ enemyDirection = Left => x >= 1
       /\ enemies = { [id |-> createId((NUM_ROWS - 1) * NUM_ENEMIES_PER_ROW).id,
                       x  |-> x,
                       y  |-> ENEMY_Y_START + (NUM_ROWS - 1) * ENEMY_Y_SPACING] }
  /\ bullets = {}
  /\ count = EndgameCount
  /\ exited = FALSE
  /\ timer = TRUE
  /\ screen = render(player, enemies, bullets)
  /\ lastEvent = TickEvent
  /\ drawn = 1
  /\ ticks = 0
  /\ moves = 0

KeyEventEndgame ==
  \E key \in { k \in Keys : ~isMove(k) } :
    /\ key.name = "space" => count < EndgameCount + MaxShots
    /\ KeyPress(key)
    /\ UNCHANGED <<ticks, moves>>

NextEndgame == TimerFires \/ KeyEventEndgame

SpecEndgame == EndgameInit /\ [][NextEndgame]_vars

(***************************************************************************)
(* Properties                                                              *)
(***************************************************************************)
Ids(S) == { r.id : r \in S }

\* the step is one running iteration of the game loop
GameLoopRan == lastEvent' = TickEvent /\ isGameRunning

\* the enemies as moveBullets finds them: after moveEnemies of the same tick
EnemiesAtMoveBullets == moveEnemies(enemies, enemyDirection).enemies

\* bullet b, once moved by moveBullets, is at the cell of enemy e
HitsAfterMove(b, e) == b.x = e.x /\ b.y - 1 = e.y

\* C1: whenever moveBullets finds a bullet, after its move, on the cell of an
\* enemy, both are destroyed: the enemy is no longer in the enemy collection
\* and the bullet is no longer in the bullet collection after the call.
C1_BothDestroyed ==
  [][GameLoopRan =>
       \A b \in bullets : \A e \in EnemiesAtMoveBullets :
         HitsAfterMove(b, e) =>
           /\ e.id \notin Ids(enemies')
           /\ b.id \notin Ids(bullets')]_vars

\* C2 as stated: an enemy at (x, y+1) is removed by the moveBullets call that
\* moves a bullet from (x, y+1) to (x, y).
C2_EnemyAtOldCellRemoved ==
  [][GameLoopRan =>
       \A b \in bullets : \A e \in EnemiesAtMoveBullets :
         (e.x = b.x /\ e.y = b.y) => e.id \notin Ids(enemies')]_vars

\* C2 amended: the enemy removed by the call that moves a bullet from
\* (x, y+1) to (x, y) is the one at (x, y), the bullet's cell after the move;
\* an enemy at (x, y+1) is removed only if some bullet's cell after the move
\* is (x, y+1).
C2_EnemyAtNewCellRemoved ==
  [][GameLoopRan =>
       \A e \in EnemiesAtMoveBullets :
         /\ (\E b \in bullets : HitsAfterMove(b, e)) => e.id \notin Ids(enemies')
         /\ (/\ \E b \in bullets : e.x = b.x /\ e.y = b.y
             /\ ~ \E b \in bullets : HitsAfterMove(b, e))
              => e \in enemies']_vars

\* a tick has just left an enemy on the cell a bullet moved out of
C2_Witness ==
  /\ lastEvent = TickEvent
  /\ \E b \in bullets : \E e \in enemies : e.x = b.x /\ e.y = b.y + 1

\* C3: one moveBullets call decrements every bullet's y by exactly 1 and leaves
\* its x alone (the bullets kept are exactly the moved ones with y >= 0), and
\* it removes an enemy if and only if the enemy's (x, y) is the moved (x, y) of
\* some bullet, pruned or not; every other enemy survives where it was.
C3_MoveBulletsEffect ==
  [][GameLoopRan =>
       /\ advanceBullets(bullets) =
            { [id |-> b.id, x |-> b.x, y |-> b.y - 1] : b \in bullets }
       /\ bullets' = { [id |-> b.id, x |-> b.x, y |-> b.y - 1] :
                         b \in { c \in bullets : c.y - 1 >= 0 } }
       /\ enemies' = { e \in EnemiesAtMoveBullets :
                         ~ \E b \in bullets : HitsAfterMove(b, e) }]_vars

\* a tick has just moved the bullet onto the bottom enemy row and one enemy
\* is gone while the others are still there
C3_Witness ==
  /\ lastEvent = TickEvent
  /\ \E b \in bullets : b.y = ENEMY_Y_START + (NUM_ROWS - 1) * ENEMY_Y_SPACING
  /\ Cardinality(enemies) = NUM_ROWS * NUM_ENEMIES_PER_ROW - 1

\* C4: a bullet with y = 0 is at y = -1 after the move of moveBullets and is
\* removed by that same call; and whenever a handler has rendered, every
\* bullet in the collection has 0 <= y <= height-2 and 0 <= x <= width-1.
BulletsOnBoard ==
  \A b \in bullets : b.y >= 0 /\ b.y <= height - 2 /\ b.x >= 0 /\ b.x <= width - 1

C4_NoBulletAboveBoardRendered ==
  /\ [](drawn = 1 => BulletsOnBoard)
  /\ [][GameLoopRan =>
          \A b \in bullets : b.y = 0 =>
            /\ \E m \in advanceBullets(bullets) :
                 m.id = b.id /\ m.x = b.x /\ m.y = -1
            /\ b.id \notin Ids(bullets')]_vars

\* a bullet was fired and a tick has just pruned it at the top of the board
C4_Witness ==
  /\ lastEvent = TickEvent
  /\ bullets = {}
  /\ count > NUM_ROWS * NUM_ENEMIES_PER_ROW
  /\ ticks >= height - 1

\* C5: the player stays on the bottom row inside the board, 0 <= player.x <=
\* width-1 and player.y = height-1; a left key decrements player.x by 1 only
\* when player.x > 0 and a right key increments it by 1 only when player.x <
\* width-1, and otherwise leaves the player where it is.
C5_PlayerClamped ==
  /\ [](player.x >= 0 /\ player.x <= width - 1 /\ player.y = height - 1)
  /\ [][/\ lastEvent'.name = "left" =>
              player' = IF player.x > 0
                        THEN [x |-> player.x - 1, y |-> player.y] ELSE player
        /\ lastEvent'.name = "right" =>
              player' = IF player.x < width - 1
                        THEN [x |-> player.x + 1, y |-> player.y] ELSE player
        /\ lastEvent'.name \notin {"left", "right"} => player' = player]_vars

\* the player stands at the left edge after a left key
C5_Witness == player.x = 0 /\ lastEvent = Key("left", FALSE)

\* C6: with a non-empty formation, one moveEnemies call flips the stored
\* direction if and only if one step in the current direction would put the
\* rightmost enemy at x >= width-1 or the leftmost enemy at x <= 0.
C6_FlipExactlyAtEdge ==
  [][(GameLoopRan /\ enemies # {}) =>
       LET step == IF enemyDirection = Right THEN 1 ELSE -1
           edge ==
             \/ \E e \in enemies : /\ \A f \in enemies : f.x <= e.x
                                   /\ e.x + step >= width - 1
             \/ \E e \in enemies : /\ \A f \in enemies : f.x >= e.x
                                   /\ e.x + step <= 0
       IN  /\ edge => (enemyDirection' # enemyDirection /\ enemyDirection' \in {Left, Right})
           /\ ~edge => enemyDirection' = enemyDirection]_vars

\* a tick has just flipped the direction at the left edge
C6_Witness ==
  /\ lastEvent = TickEvent
  /\ enemyDirection = Right
  /\ \E e \in enemies : e.x = 0

\* C7: one moveEnemies call shifts every enemy's x by the same amount, +1 if
\* the direction stored at the start of the call is Right and -1 if it is
\* Left (an enemy missing after the tick is one a bullet hit at its shifted
\* cell); with the rightmost enemy at width-2 and direction Right the call
\* stores Left while every enemy still moves one cell to the right.
C7_FormationMovesAsOne ==
  [][GameLoopRan =>
       LET step == IF enemyDirection = Right THEN 1 ELSE -1
       IN  /\ Ids(enemies') \subseteq Ids(enemies)
           /\ \A e \in enemies :
                IF e.id \in Ids(enemies')
                THEN [id |-> e.id, x |-> e.x + step, y |-> e.y] \in enemies'
                ELSE \E b \in bullets : b.x = e.x + step /\ b.y - 1 = e.y
           /\ (/\ enemyDirection = Right
               /\ \E e \in enemies : e.x = width - 2
               /\ \A e \in enemies : e.x <= width - 2)
                => (enemyDirection' = Left /\ step = 1)]_vars

\* a tick has just carried the formation to the right edge and stored Left
C7_Witness ==
  /\ lastEvent = TickEvent
  /\ enemyDirection = Left
  /\ \E e \in enemies : e.x = width - 1
  /\ \A e \in enemies : e.x >= ENEMY_X_START + 1

\* C8: the running flag changes only from true to false and only on a quit
\* key ('q' or Ctrl+'c'), every quit key clears it, and once it is false no
\* tick or key event changes the player, the enemies, the bullets, the
\* direction, the flag or what is on the screen.
C8_QuitIsOneWay ==
  [][/\ isGameRunning' # isGameRunning =>
          (isGameRunning /\ ~isGameRunning' /\ isQuit(lastEvent'))
     /\ (lastEvent' \in Keys /\ isQuit(lastEvent')) => ~isGameRunning'
     /\ ~isGameRunning =>
          UNCHANGED <<player, enemies, bullets, enemyDirection,
                      isGameRunning, screen>>]_vars

\* Ctrl+'c' has ended the session
C8_Witness ==
  /\ ~isGameRunning
  /\ exited
  /\ lastEvent = Key("c", TRUE)
  /\ screen.kind = "message"

\* C9: a timer tick checks the running flag first; while running it moves the
\* enemies, then the bullets against the moved enemies, then renders the
\* result exactly once, all in one step; if the flag is false it cancels the
\* timer and moves and renders nothing.
C9_TickSequence ==
  [][lastEvent' = TickEvent =>
       IF isGameRunning
       THEN LET step == IF enemyDirection = Right THEN 1 ELSE -1
                movedEnemies ==
                  { [id |-> e.id, x |-> e.x + step, y |-> e.y] : e \in enemies }
                movedBullets ==
                  { [id |-> b.id, x |-> b.x, y |-> b.y - 1] : b \in bullets }
            IN  /\ enemies' = { e \in movedEnemies :
                                  ~ \E b \in movedBullets : b.x = e.x /\ b.y = e.y }
                /\ bullets' = { b \in movedBullets : b.y >= 0 }
                /\ drawn' = 1
                /\ screen'.kind = "board"
                /\ screen'.enemies = { <<e.x, e.y>> : e \in enemies' }
                /\ screen'.bullets = { <<b.x, b.y>> : b \in bullets' }
                /\ screen'.player = <<player.x, player.y>>
                /\ UNCHANGED <<player, isGameRunning, count>>
                /\ timer'
       ELSE /\ ~timer'
            /\ drawn' = 0
            /\ UNCHANGED <<player, enemies, bullets, enemyDirection, screen>>]_vars

\* the first tick has run and the board it rendered is on the screen
C9_Witness ==
  /\ lastEvent = TickEvent
  /\ ticks = 1
  /\ drawn = 1
  /\ screen.kind = "board"
  /\ \A e \in enemies : <<e.x, e.y>> \in screen.enemies

\* C10: every key event, whichever branch it takes, renders the board within
\* its own handler.
C10_EveryKeyRenders ==
  lastEvent \in Keys => (drawn = 1 /\ screen.kind = "board")

\* C11: createId returns 1 on its first call and one more on each later
\* call: the 24 initial enemies hold the ids 1..24 (the first one pushed has
\* id 1), every bullet's id is the counter's value plus one at the time it is
\* fired, larger than every id issued before, so all ids are pairwise distinct
\* and none is used again after its entity is gone.
InitialIds == 1..(NUM_ROWS * NUM_ENEMIES_PER_ROW)

C11_IdsNeverReused ==
  /\ [](/\ Ids(enemies) \subseteq InitialIds
        /\ lastEvent = NoEvent =>
             /\ Ids(enemies) = InitialIds
             /\ [id |-> 1, x |-> ENEMY_X_START, y |-> ENEMY_Y_START] \in enemies
        /\ \A b \in bullets : b.id \notin InitialIds /\ b.id <= count
        /\ \A r1 \in enemies \cup bullets : \A r2 \in enemies \cup bullets :
             r1.id = r2.id => r1 = r2
        /\ Cardinality(Ids(enemies)) = Cardinality(enemies)
        /\ Cardinality(Ids(bullets)) = Cardinality(bullets))
  /\ [][/\ count' >= count
        /\ Ids(enemies') \subseteq Ids(enemies)
        /\ \A b \in bullets' :
             b.id \notin Ids(bullets) => (b.id = count + 1 /\ count' = count + 1)]_vars

\* the first bullet is gone and the second, fired later, is in flight
C11_Witness ==
  /\ NUM_ROWS * NUM_ENEMIES_PER_ROW + 1 \notin Ids(bullets)
  /\ NUM_ROWS * NUM_ENEMIES_PER_ROW + 2 \in Ids(bullets)

\* C12: each space key adds exactly one new bullet, at (player.x, player.y-1)
\* for the player's position at the time of the key, and leaves every bullet
\* already there, every enemy, the player and the direction unchanged; nothing
\* debounces or caps it, so two space keys with no tick between them leave two
\* bullets on the same cell.
C12_SpaceAddsOneBullet ==
  [][lastEvent' = Key("space", FALSE) =>
       /\ bullets \subseteq bullets'
       /\ Cardinality(bullets') = Cardinality(bullets) + 1
       /\ \A b \in bullets' \ bullets : b.x = player.x /\ b.y = player.y - 1
       /\ UNCHANGED <<enemies, player, enemyDirection>>]_vars

\* a second space key has just put a second bullet on the cell of the first
C12_Witness ==
  /\ lastEvent = Key("space", FALSE)
  /\ \E b1 \in bullets : \E b2 \in bullets :
       b1.id # b2.id /\ b1.x = b2.x /\ b1.y = b2.y /\ b1.y = player.y - 1

\* C13: a new session has a 40x20 board, the player at (20,19), direction
\* Right, no bullets and 24 enemies at x in {3,6,...,24}, y in {1,3,5}; after
\* the first moveEnemies every enemy's x is one larger and the direction is
\* still Right; a space key with the player at (20,19) creates a bullet at
\* (20,18), and one moveBullets later that bullet is at (20,17) and still in
\* the collection, with all 24 enemies still present (the scenario fires once:
\* that bullet is the only one in flight).
Cells(S) == { <<r.x, r.y>> : r \in S }

C13_InitialScenario ==
  /\ [](lastEvent = NoEvent =>
          /\ width = 40 /\ height = 20
          /\ player = [x |-> 20, y |-> 19]
          /\ enemyDirection = Right
          /\ bullets = {}
          /\ Cardinality(enemies) = 24
          /\ Cells(enemies) = { <<3 * c, y>> : c \in 1..8, y \in {1, 3, 5} })
  /\ [](ticks = 1 =>
          /\ enemyDirection = Right
          /\ Cardinality(enemies) = 24
          /\ Cells(enemies) = { <<3 * c + 1, y>> : c \in 1..8, y \in {1, 3, 5} })
  /\ [][/\ (lastEvent' = Key("space", FALSE) /\ player = [x |-> 20, y |-> 19]) =>
             \E b \in bullets' \ bullets : b.x = 20 /\ b.y = 18
        /\ GameLoopRan =>
             \A b \in bullets : (b.x = 20 /\ b.y = 18) =>
               /\ [id |-> b.id, x |-> 20, y |-> 17] \in bullets'
               /\ (bullets = {b} /\ Cardinality(enemies) = 24) =>
                    Cardinality(enemies') = 24]_vars

\* one tick, one shot from (20,19), one more tick
C13_Witness ==
  /\ ticks = 2
  /\ lastEvent = TickEvent
  /\ player = [x |-> 20, y |-> 19]
  /\ Cells(bullets) = { <<20, 17>> }
  /\ Cardinality(enemies) = 24

BulletAge(b) == (height - 2) - b.y

ShotIds ==
  (NUM_ROWS * NUM_ENEMIES_PER_ROW + 1)..(NUM_ROWS * NUM_ENEMIES_PER_ROW + MaxShots)

C18_BulletGoneOnTick19 ==
  /\ [](\A b \in bullets : BulletAge(b) \in 0..(height - 2))
  /\ [][/\ \A b \in bullets' : b.id \notin Ids(bullets) => BulletAge(b) = 0
        /\ GameLoopRan =>
             \A b \in bullets :
               IF BulletAge(b) + 1 = height - 1
               THEN b.id \notin Ids(bullets')
               ELSE \E c \in bullets' :
                      c.id = b.id /\ c.x = b.x /\ BulletAge(c) = BulletAge(b) + 1
        /\ ~GameLoopRan => bullets \subseteq bullets']_vars
  /\ \A i \in ShotIds : (i \in Ids(bullets)) ~> (i \notin Ids(bullets) \/ exited)

\* a bullet that hit an enemy on its way has flown on and been pruned at the top
C18_Witness ==
  /\ lastEvent = TickEvent
  /\ bullets = {}
  /\ count > NUM_ROWS * NUM_ENEMIES_PER_ROW
  /\ Cardinality(enemies) < NUM_ROWS * NUM_ENEMIES_PER_ROW

\* C19: in every execution in which the session is never quit, the timer
\* keeps ticking and some enemy always survives, the stored direction is Left
\* infinitely often and Right infinitely often; and the direction never flips
\* on two consecutive ticks: the state a flipping tick leaves fails the edge
\* test, and no key event changes the enemies or the direction before the
\* next tick.
EdgeAhead(es, direction) ==
  LET step == IF direction = Right THEN 1 ELSE -1
  IN  \/ \E e \in es : e.x + step >= width - 1
      \/ \E e \in es : e.x + step <= 0

C19_FormationKeepsSweeping ==
  /\ ([]~exited /\ [](enemies # {})) =>
       ([]<>(enemyDirection = Left) /\ []<>(enemyDirection = Right))
  /\ [][/\ (GameLoopRan /\ enemyDirection' # enemyDirection) =>
             ~EdgeAhead(enemies', enemyDirection')
        /\ ~GameLoopRan => UNCHANGED <<enemies, enemyDirection>>]_vars

\* after a shot was fired the formation has swept right, back left, and has
\* just turned at the left edge
C19_Witness ==
  /\ lastEvent = TickEvent
  /\ count > NUM_ROWS * NUM_ENEMIES_PER_ROW
  /\ enemyDirection = Right
  /\ \E e \in enemies : e.x = 0

\* C16: with no enemy left moveEnemies does nothing: a tick that finds the
\* enemy collection empty leaves the stored direction as it is, Left or
\* Right, leaves the collection empty and the player where it is, and the
\* bullets only make the move of moveBullets.
C16_EmptyFormationNoOp ==
  [][(GameLoopRan /\ enemies = {}) =>
       /\ enemyDirection' = enemyDirection
       /\ enemies' = {}
       /\ player' = player
       /\ bullets' = { [id |-> b.id, x |-> b.x, y |-> b.y - 1] :
                         b \in { c \in bullets : c.y - 1 >= 0 } }]_vars

\* the last enemy was shot while the formation headed Left, and ticks have
\* run on the empty formation until the bullet left the board
C16_Witness ==
  /\ enemies = {}
  /\ bullets = {}
  /\ lastEvent = TickEvent
  /\ enemyDirection = Left

\* C17: whenever a handler has rendered, by a tick or by a key, no enemy and
\* bullet are on the same cell, in the collections and on the board drawn: the
\* collision step has removed the enemy, and a bullet is never fired onto an
\* enemy.
C17_NoSharedCellAtRender ==
  /\ drawn = 1 =>
       \A e \in enemies : \A b \in bullets : ~(e.x = b.x /\ e.y = b.y)
  /\ screen.kind = "board" => screen.enemies \cap screen.bullets = {}

\* the board drawn by the tick in which a bullet hit an enemy of the bottom row
C17_Witness ==
  /\ drawn = 1
  /\ screen.kind = "board"
  /\ Cardinality(screen.enemies) = NUM_ROWS * NUM_ENEMIES_PER_ROW - 1
  /\ \E c \in screen.bullets :
       c[2] = ENEMY_Y_START + (NUM_ROWS - 1) * ENEMY_Y_SPACING

\* C20: a timer tick never changes the player's position; a left, right or
\* unmapped key never changes the enemies, the bullets or the direction; and
\* the enemy collection never gains a member.
C20_DisjointEffects ==
  [][/\ lastEvent' = TickEvent => player' = player
     /\ lastEvent' \in {Key("left", FALSE), Key("right", FALSE), Key("c", FALSE)} =>
          UNCHANGED <<enemies, bullets, enemyDirection>>
     /\ Ids(enemies') \subseteq Ids(enemies)]_vars

\* a left key has moved the player while a bullet is in flight
C20_Witness ==
  /\ lastEvent = Key("left", FALSE)
  /\ player.x = width \div 2 - 1
  /\ bullets # {}
  /\ ticks > 0

====
